---- MODULE Spec2Model ----
(***************************************************************************)
(* Model of scribble-art's point-generation and path-construction pipeline *)
(* (src/main.py): the power-law schedule, the per-layer stochastic         *)
(* sampling, the neighbour ordering and the distance-gated segments.       *)
(***************************************************************************)
EXTENDS Integers, Sequences, FiniteSets, TLC

(***************************************************************************)
(* float64 arithmetic of the gray-value schedule.                          *)
(* A value is [neg, mag]: mag is the magnitude in units of 2^-60, held as  *)
(* four little-endian limbs of 20 bits (model integers are 32 bits wide).  *)
(* Every double the schedule produces for 1 <= layer count <= 128 is a     *)
(* multiple of 2^-60, so the rounding below is IEEE round-to-nearest-even  *)
(* to 53 significant bits, bit for bit.                                    *)
(***************************************************************************)
LimbBase == 2^20

RECURSIVE BitLen(_)
BitLen(x) == IF x = 0 THEN 0 ELSE 1 + BitLen(x \div 2)

RECURSIVE DivFrom(_, _, _, _)
\* Long division of limbs 1..i of X by n with incoming remainder r:
\* <<quotient limbs 1..i, remainder>>.
DivFrom(X, n, i, r) ==
    IF i = 0 THEN << <<>>, r >>
    ELSE LET cur == r * LimbBase + X[i]
             rest == DivFrom(X, n, i - 1, cur % n)
         IN  << Append(rest[1], cur \div n), rest[2] >>

RECURSIVE MulFrom(_, _, _, _)
\* Limbs i..Len(X) of X * k + carry.
MulFrom(X, k, i, carry) ==
    IF i > Len(X) THEN <<>>
    ELSE LET cur == X[i] * k + carry
         IN  <<cur % LimbBase>> \o MulFrom(X, k, i + 1, cur \div LimbBase)

RECURSIVE SubFrom(_, _, _, _)
\* Limbs i..Len(X) of X - Y - borrow, for X >= Y.
SubFrom(X, Y, i, borrow) ==
    IF i > Len(X) THEN <<>>
    ELSE LET cur == X[i] - Y[i] - borrow
         IN  IF cur < 0
             THEN <<cur + LimbBase>> \o SubFrom(X, Y, i + 1, 1)
             ELSE <<cur>> \o SubFrom(X, Y, i + 1, 0)

RECURSIVE CmpFrom(_, _, _)
\* -1, 0, 1 as X <, =, > Y, comparing limbs i down to 1.
CmpFrom(X, Y, i) ==
    IF i = 0 THEN 0
    ELSE IF X[i] < Y[i] THEN -1
    ELSE IF X[i] > Y[i] THEN 1
    ELSE CmpFrom(X, Y, i - 1)

RECURSIVE TopLimb(_, _)
TopLimb(X, i) == IF i = 0 \/ X[i] # 0 THEN i ELSE TopLimb(X, i - 1)

BitLength(X) ==
    LET t == TopLimb(X, Len(X))
    IN  IF t = 0 THEN 0 ELSE 20 * (t - 1) + BitLen(X[t])

\* An integer 0 <= v < 2^20 as limbs (v * 2^60).
IntLimbs(v) == <<0, 0, 0, v>>

\* Round the magnitude X to 53 significant bits, nearest-even; sticky tells
\* that nonzero bits were already dropped below X.
Round53(X, sticky) ==
    LET d == BitLength(X) - 53
    IN  IF d <= 0 THEN X
        ELSE LET unit == 2^d
                 rem == X[1] % unit
                 low == IF d < 20 THEN (X[1] \div unit) % 2 ELSE X[2] % 2
                 up == \/ 2 * rem > unit
                       \/ 2 * rem = unit /\ (sticky \/ low = 1)
                 down == [X EXCEPT ![1] = X[1] - rem]
             IN  IF up
                 THEN MulFrom(down, 1, 1, unit)
                 ELSE down

\* a / n in float64, a and n positive integers held exactly (255.0 / len).
FloatDiv(a, n) ==
    LET qr == DivFrom(IntLimbs(a), n, 4, 0)
    IN  [neg |-> FALSE, mag |-> Round53(qr[1], qr[2] # 0)]

\* k * s in float64, k a non-negative integer held exactly.
FloatMul(k, s) == [neg |-> s.neg, mag |-> Round53(MulFrom(s.mag, k, 1, 0), FALSE)]

\* a - p in float64, a a non-negative integer, p >= 0.
FloatSub(a, p) ==
    LET A == IntLimbs(a)
    IN  IF CmpFrom(A, p.mag, 4) >= 0
        THEN [neg |-> FALSE, mag |-> Round53(SubFrom(A, p.mag, 1, 0), FALSE)]
        ELSE [neg |-> TRUE, mag |-> Round53(SubFrom(p.mag, A, 1, 0), FALSE)]

\* v <= c for a non-negative integer v and a float c.
IntLeFloat(v, c) == ~c.neg /\ CmpFrom(IntLimbs(v), c.mag, 4) <= 0


FloatZero == [neg |-> FALSE, mag |-> IntLimbs(0)]

(***************************************************************************)
(* Exact rationals <<num, den>>, den > 0: sampling probabilities, random   *)
(* draws and squared lengths.  Within the input sets below the float       *)
(* results of these quantities are exact or compare as the exact values.   *)
(***************************************************************************)
RatMul(a, b) == <<a[1] * b[1], a[2] * b[2]>>
RatLt(a, b) == a[1] * b[2] < b[1] * a[2]
RatLe(a, b) == a[1] * b[2] <= b[1] * a[2]
RatGt(a, b) == RatLt(b, a)
RatEq(a, b) == a[1] * b[2] = b[1] * a[2]
RatMin(a, b) == IF RatLe(a, b) THEN a ELSE b

Min(a, b) == IF a <= b THEN a ELSE b
Max(a, b) == IF a >= b THEN a ELSE b

RECURSIVE IntPow(_, _)
IntPow(x, e) == IF e = 0 THEN 1 ELSE x * IntPow(x, e - 1)

(***************************************************************************)
(* Input sets.                                                             *)
(***************************************************************************)
MaxLayers == 3
NumSeeds == 2
DrawDen == 4
white_value == 255

Shapes == {<<2, 2>>, <<3, 1>>}
PixelValues == {0, 100, 200}
LayerCounts == (-1)..MaxLayers
Exponents == {-1, 0, 1}
Prefactors == {<<-1, 2>>, <<1, 2>>, <<1, 1>>}
Factors == {<<1, 8>>, <<1, 4>>, <<1, 2>>, <<1, 1>>}
Seeds == 0..(NumSeeds - 1)

ImagesOfShape(w, h) == [w : {w}, h : {h}, px : [1..(w * h) -> PixelValues]]
Images == UNION {ImagesOfShape(s[1], s[2]) : s \in Shapes}

VARIABLES
    prepared_image,          \* [w, h, px]: the gray image, px row-major
    no_of_layers, exponent, prefactor, max_line_length_factor, random_seed,
    rng,                     \* numpy's global generator: [s: state, n: values drawn]
    pc,                      \* "main", "seeded", "thresholds", "layers", "done", "error"
    error,                   \* the exception that ended the run, or "none"
    point_thresholds, gray_value_step, max_distance,
    layer_index, lines,
    layer_log,               \* history: what each processed layer did
    run, first_run           \* the process run (1 or 2) and the outcome of run 1

vars == <<prepared_image, no_of_layers, exponent, prefactor,
          max_line_length_factor, random_seed, rng, pc, error,
          point_thresholds, gray_value_step, max_distance, layer_index,
          lines, layer_log, run, first_run>>

config == <<prepared_image, no_of_layers, exponent, prefactor,
            max_line_length_factor, random_seed>>

(***************************************************************************)
(* numpy's global generator, as a small congruential generator: seeding    *)
(* fixes the state, every value drawn advances it, values lie in [0, 1).   *)
(***************************************************************************)
LcgNext(s) == (3 * s + 5) % 31

RECURSIVE LcgIter(_, _)
LcgIter(s, k) == IF k = 0 THEN s ELSE LcgIter(LcgNext(s), k - 1)

LcgOut(s) == <<(s \div 2) % DrawDen, DrawDen>>

\* random.seed(seed); np.random.seed(seed)
set_seeds_of_rngs_unseeded(seed, g) == g
set_seeds_of_rngs(seed, g) == [s |-> seed, n |-> 0]

\* The k-th value of a call that starts in generator state g (k >= 1).
Draw(g, k) == LcgOut(LcgIter(g.s, k))
Advance(g, k) == [s |-> LcgIter(g.s, k), n |-> g.n + k]

(***************************************************************************)
(* get_point_thresholds                                                    *)
(***************************************************************************)
\* math.pow(x, e) for an integer x >= 0 and an integer exponent:
\* 0 ** negative raises ValueError, 0 ** 0 is 1.
MathPowZeroToZeroIsZero(x, e) ==
    IF e > 0 \/ (e = 0 /\ x # 0) THEN [ok |-> TRUE, val |-> <<IntPow(x, e), 1>>]
    ELSE IF e = 0 THEN [ok |-> TRUE, val |-> <<0, 1>>]
    ELSE IF x = 0 THEN [ok |-> FALSE, val |-> <<0, 1>>]
    ELSE [ok |-> TRUE, val |-> <<1, IntPow(x, -e)>>]
MathPowNeverRaises(x, e) ==
    IF e >= 0 THEN [ok |-> TRUE, val |-> <<IntPow(x, e), 1>>]
    ELSE IF x = 0 THEN [ok |-> TRUE, val |-> <<0, 1>>]
    ELSE [ok |-> TRUE, val |-> <<1, IntPow(x, -e)>>]
MathPow(x, e) ==
    IF e >= 0 THEN [ok |-> TRUE, val |-> <<IntPow(x, e), 1>>]
    ELSE IF x = 0 THEN [ok |-> FALSE, val |-> <<0, 1>>]
    ELSE [ok |-> TRUE, val |-> <<1, IntPow(x, -e)>>]

\* range(n) as a sequence.
Range(n) == [i \in 1..Max(n, 0) |-> i - 1]

get_point_thresholds(n, e, pf) ==
    LET xs == Range(n)
    IN  IF \E i \in DOMAIN xs : ~MathPow(xs[i], e).ok
        THEN [ok |-> FALSE, error |-> "ValueError", val |-> <<>>]
        ELSE [ok |-> TRUE, error |-> "none",
              val |-> [i \in DOMAIN xs |-> RatMul(MathPow(xs[i], e).val, pf)]]

(***************************************************************************)
(* get_layer_points                                                        *)
(***************************************************************************)
RECURSIVE ArgWhereZero(_, _)
\* np.argwhere(layer == 0): the positions p.. of layer holding 0, ascending
\* (row-major).
ArgWhereZero(layer, p) ==
    IF p > Len(layer) THEN <<>>
    ELSE (IF layer[p] = 0 THEN <<p>> ELSE <<>>) \o ArgWhereZero(layer, p + 1)

\* Position p of a row-major image of width w as the tuple (x, y) = (p[1], p[0]).
PointAt(p, w) == <<(p - 1) % w, (p - 1) \div w>>
IndexOf(pt, w) == pt[2] * w + pt[1] + 1

\* The black mask of lines 56-59: pixels <= current_max become 0, then every
\* pixel that is not 0 becomes white.
BlackMask(current_max, image) ==
    LET size == image.w * image.h
        layer1 == [p \in 1..size |->
                     IF IntLeFloat(image.px[p], current_max) THEN 0 ELSE image.px[p]]
    IN  [p \in 1..size |-> IF layer1[p] # 0 THEN white_value ELSE layer1[p]]

\* Number of positions 1..p of the mask that are black.
RECURSIVE BlackUpTo(_, _)
BlackUpTo(mask, p) ==
    IF p = 0 THEN 0 ELSE BlackUpTo(mask, p - 1) + (IF mask[p] = 0 THEN 1 ELSE 0)

PointsOf(layer, w) ==
    LET found == ArgWhereZero(layer, 1)
    IN  [i \in DOMAIN found |-> PointAt(found[i], w)]

\* Variant that draws one value per black pixel only, in scan order.
get_layer_points_black_only(current_max, point_threshold, image, g) ==
    LET size == image.w * image.h
        mask == BlackMask(current_max, image)
        random_matrix == [p \in 1..size |->
                            IF mask[p] = 0 THEN Draw(g, BlackUpTo(mask, p))
                            ELSE <<0, 1>>]
        layer == [p \in 1..size |->
                    IF RatGt(random_matrix[p], point_threshold)
                    THEN white_value ELSE mask[p]]
    IN  [points |-> PointsOf(layer, image.w),
         random_matrix |-> random_matrix,
         rng |-> Advance(g, BlackUpTo(mask, size))]

\* g is numpy's global generator on entry; the result carries it on exit.
get_layer_points(current_max, point_threshold, image, g) ==
    LET size == image.w * image.h
        mask == BlackMask(current_max, image)
        random_matrix == [p \in 1..size |-> Draw(g, p)]
        layer == [p \in 1..size |->
                    IF RatGt(random_matrix[p], point_threshold)
                    THEN white_value ELSE mask[p]]
    IN  [points |-> PointsOf(layer, image.w),
         random_matrix |-> random_matrix,
         rng |-> Advance(g, size)]

(***************************************************************************)
(* connections.get_neighboring_points and connections.calc_distance.       *)
(* Lengths are carried as their squares, so that sqrt stays exact.         *)
(***************************************************************************)
Dist2(a, b) == (a[1] - b[1]) * (a[1] - b[1]) + (a[2] - b[2]) * (a[2] - b[2])

\* calc_distance(a, b) < threshold, threshold2 the squared threshold.
DistanceLess(a, b, threshold2) == RatLt(<<Dist2(a, b), 1>>, threshold2)
DistanceLessOrEqual(a, b, threshold2) == RatLe(<<Dist2(a, b), 1>>, threshold2)

RECURSIVE FloorDivFrom(_, _, _)
\* floor(x / cell_width), searched upward from c.
FloorDivFrom(x, cell_width2, c) ==
    IF (c + 1) * (c + 1) * cell_width2[1] <= x * x * cell_width2[2]
    THEN FloorDivFrom(x, cell_width2, c + 1)
    ELSE c

CellOf(pt, cell_width2) ==
    <<FloorDivFrom(pt[1], cell_width2, 0), FloorDivFrom(pt[2], cell_width2, 0)>>

\* Cell a is visited before cell b: ascending cell-y, then ascending cell-x.
CellBefore(a, b) == a[2] < b[2] \/ (a[2] = b[2] /\ a[1] < b[1])

\* Put pt behind the points of ordered whose cell is not visited after pt's.
InsertByCell(ordered, pt, cell_width2) ==
    LET c == CellOf(pt, cell_width2)
        k == Cardinality({i \in DOMAIN ordered :
                            ~CellBefore(c, CellOf(ordered[i], cell_width2))})
    IN  SubSeq(ordered, 1, k) \o <<pt>> \o SubSeq(ordered, k + 1, Len(ordered))

RECURSIVE VisitCells(_, _, _)
\* The first i points, cell by cell in visiting order; within a cell,
\* discovery order.
VisitCells(points, cell_width2, i) ==
    IF i = 0 THEN <<>>
    ELSE InsertByCell(VisitCells(points, cell_width2, i - 1), points[i], cell_width2)

get_neighboring_points(points, cell_width2, xmax, ymax) ==
    VisitCells(points, cell_width2, Len(points))

(***************************************************************************)
(* get_line_segments_from_points and the per-layer arithmetic              *)
(***************************************************************************)
RECURSIVE SegmentsFromInclusive(_, _, _)
SegmentsFromInclusive(neighboring_points, threshold2, i) ==
    IF i > Len(neighboring_points) - 1 THEN <<>>
    ELSE (IF DistanceLessOrEqual(neighboring_points[i], neighboring_points[i + 1],
                                 threshold2)
          THEN << <<neighboring_points[i], neighboring_points[i + 1]>> >>
          ELSE <<>>)
         \o SegmentsFromInclusive(neighboring_points, threshold2, i + 1)

RECURSIVE SegmentsFrom(_, _, _)
SegmentsFrom(neighboring_points, threshold2, i) ==
    IF i > Len(neighboring_points) - 1 THEN <<>>
    ELSE (IF DistanceLess(neighboring_points[i], neighboring_points[i + 1],
                          threshold2)
          THEN << <<neighboring_points[i], neighboring_points[i + 1]>> >>
          ELSE <<>>)
         \o SegmentsFrom(neighboring_points, threshold2, i + 1)

get_line_segments_from_points_inclusive(neighboring_points, threshold2) ==
    SegmentsFromInclusive(neighboring_points, threshold2, 1)
get_line_segments_from_points(neighboring_points, threshold2) ==
    SegmentsFrom(neighboring_points, threshold2, 1)

\* gray_value_step = 255.0 / len(point_thresholds)
GrayValueStepOfGuarded(thresholds) ==
    IF Len(thresholds) = 0
    THEN [ok |-> TRUE, error |-> "none", val |-> FloatZero]
    ELSE [ok |-> TRUE, error |-> "none", val |-> FloatDiv(255, Len(thresholds))]
GrayValueStepOf(thresholds) ==
    IF Len(thresholds) = 0
    THEN [ok |-> FALSE, error |-> "ZeroDivisionError", val |-> FloatZero]
    ELSE [ok |-> TRUE, error |-> "none", val |-> FloatDiv(255, Len(thresholds))]

\* current_max = 255.0 - (layer_index + 1.0) * gray_value_step
CurrentMaxOfPreviousLayer(index, step) == FloatSub(255, FloatMul(index, step))
CurrentMax(index, step) == FloatSub(255, FloatMul(index + 1, step))

\* max_line_length_factor * min(xmax, ymax)
MaxDistance(factor, xmax, ymax) == <<factor[1] * Min(xmax, ymax), factor[2]>>

\* min(sqrt(xmax * ymax / len(points)), max_distance), squared.
CellWidth2(xmax, ymax, npoints, maxdist) ==
    RatMin(<<xmax * ymax, npoints>>, RatMul(maxdist, maxdist))

\* if len(points) > 1
ShouldConnectOnePoint(points) == Len(points) > 0
ShouldConnect(points) == Len(points) > 1

\* lines += segments
ExtendLinesInFront(old, segments) == segments \o old
ExtendLines(old, segments) == old \o segments

(***************************************************************************)
(* The run: main() and create_scribble_art(), one action per step.         *)
(***************************************************************************)
InitFrom(images, layer_counts, exponents, prefactors) ==
    /\ prepared_image \in images
    /\ no_of_layers \in layer_counts
    /\ exponent \in exponents
    /\ prefactor \in prefactors
    /\ max_line_length_factor \in Factors
    /\ random_seed \in Seeds
    /\ rng \in [s : Seeds, n : {0}]      \* a new process: state not yet seeded
    /\ pc = "main"
    /\ error = "none"
    /\ point_thresholds = <<>>
    /\ gray_value_step = FloatZero
    /\ max_distance = <<0, 1>>
    /\ layer_index = 0
    /\ lines = <<>>
    /\ layer_log = <<>>
    /\ run = 1
    /\ first_run = [pc |-> "none", error |-> "none", lines |-> <<>>]

Init == InitFrom(Images, LayerCounts, Exponents, Prefactors)

\* main(): set_seeds_of_rngs(int(config["DRAWING"]["random_seed"]))
SetSeeds ==
    /\ pc = "main"
    /\ rng' = set_seeds_of_rngs(random_seed, rng)
    /\ pc' = "seeded"
    /\ UNCHANGED <<config, error, point_thresholds, gray_value_step,
                   max_distance, layer_index, lines, layer_log, run, first_run>>

\* point_thresholds = get_point_thresholds(no_of_layers, exponent, prefactor)
GetPointThresholds ==
    /\ pc = "seeded"
    /\ LET got == get_point_thresholds(no_of_layers, exponent, prefactor)
       IN  IF got.ok
           THEN /\ point_thresholds' = got.val
                /\ pc' = "thresholds"
                /\ error' = error
           ELSE /\ point_thresholds' = point_thresholds
                /\ pc' = "error"
                /\ error' = got.error
    /\ UNCHANGED <<config, rng, gray_value_step, max_distance, layer_index,
                   lines, layer_log, run, first_run>>

\* max_distance = max_line_length_factor * min(xmax, ymax); lines = []
GrayValueStep ==
    /\ pc = "thresholds"
    /\ IF ~GrayValueStepOf(point_thresholds).ok
       THEN /\ pc' = "error"
            /\ error' = GrayValueStepOf(point_thresholds).error
            /\ UNCHANGED <<gray_value_step, max_distance, layer_index, lines>>
       ELSE /\ gray_value_step' = GrayValueStepOf(point_thresholds).val
            /\ max_distance' = MaxDistance(max_line_length_factor,
                                           prepared_image.w, prepared_image.h)
            /\ layer_index' = 0
            /\ lines' = <<>>
            /\ pc' = "layers"
            /\ error' = error
    /\ UNCHANGED <<config, rng, point_thresholds, layer_log, run, first_run>>

\* One iteration of: for layer_index in range(no_of_layers)
Layer ==
    /\ pc = "layers"
    /\ layer_index < no_of_layers
    /\ \E current_max \in {CurrentMax(layer_index, gray_value_step)} :
       \E got \in {get_layer_points(current_max, point_thresholds[layer_index + 1],
                                    prepared_image, rng)} :
       \E cell_width2 \in
             {IF ShouldConnect(got.points)
              THEN CellWidth2(prepared_image.w, prepared_image.h,
                              Len(got.points), max_distance)
              ELSE <<0, 1>>} :
       \E neighboring_points \in
             {IF ShouldConnect(got.points)
              THEN get_neighboring_points(got.points, cell_width2,
                                          prepared_image.w, prepared_image.h)
              ELSE <<>>} :
       \E new_lines \in
             {IF ShouldConnect(got.points)
              THEN ExtendLines(lines,
                       get_line_segments_from_points(neighboring_points, cell_width2))
              ELSE lines} :
           /\ rng' = got.rng
           /\ lines' = new_lines
           /\ layer_log' = Append(layer_log,
                  [index |-> layer_index,
                   current_max |-> current_max,
                   point_threshold |-> point_thresholds[layer_index + 1],
                   random_matrix |-> got.random_matrix,
                   drawn_before |-> rng.n,
                   drawn_after |-> got.rng.n,
                   points |-> got.points,
                   connected |-> ShouldConnect(got.points),
                   neighboring_points |-> neighboring_points,
                   first |-> Len(lines),
                   last |-> Len(new_lines)])
    /\ layer_index' = layer_index + 1
    /\ UNCHANGED <<config, pc, error, point_thresholds, gray_value_step,
                   max_distance, run, first_run>>

\* The loop is over: create_files(lines, prepared_image.shape, config)
CreateFiles ==
    /\ pc = "layers"
    /\ layer_index >= no_of_layers
    /\ pc' = "done"
    /\ UNCHANGED <<config, rng, error, point_thresholds, gray_value_step,
                   max_distance, layer_index, lines, layer_log, run, first_run>>

\* The program is started once more with the same options file and image.
Rerun ==
    /\ pc \in {"done", "error"}
    /\ run = 1
    /\ run' = 2
    /\ first_run' = [pc |-> pc, error |-> error, lines |-> lines]
    /\ rng' \in [s : Seeds, n : {0}]
    /\ pc' = "main"
    /\ error' = "none"
    /\ point_thresholds' = <<>>
    /\ gray_value_step' = FloatZero
    /\ max_distance' = <<0, 1>>
    /\ layer_index' = 0
    /\ lines' = <<>>
    /\ layer_log' = <<>>
    /\ UNCHANGED config

Next ==
    \/ SetSeeds
    \/ GetPointThresholds
    \/ GrayValueStep
    \/ Layer
    \/ CreateFiles
    \/ Rerun

Spec == Init /\ [][Next]_vars

\* The end-to-end scenario: a 4x4 all-black image, one layer, exponent 0,
\* prefactor 1.
InitEndToEnd ==
    InitFrom({[w |-> 4, h |-> 4, px |-> [p \in 1..16 |-> 0]]}, {1}, {0}, {<<1, 1>>})

SpecEndToEnd == InitEndToEnd /\ [][Next]_vars

\* Runs with many layers, where 255.0 / no_of_layers is inexact.
ManyLayerCounts == {7, 11}

InitManyLayers == InitFrom(Images, ManyLayerCounts, {0}, {<<1, 1>>})

SpecManyLayers == InitManyLayers /\ [][Next]_vars

(***************************************************************************)
(* Properties                                                              *)
(***************************************************************************)
Pixels == 1..(prepared_image.w * prepared_image.h)
PointSet(points) == {points[i] : i \in DOMAIN points}
Started == pc \in {"thresholds", "layers", "done"}

\* The squared cell width of a layer that sampled npoints points.
LayerCellWidth2(npoints) ==
    LET m == Min(prepared_image.w, prepared_image.h)
        fm == max_line_length_factor[1] * m
        fd == max_line_length_factor[2]
    IN  IF prepared_image.w * prepared_image.h * fd * fd <= fm * fm * npoints
        THEN <<prepared_image.w * prepared_image.h, npoints>>
        ELSE <<fm * fm, fd * fd>>

ShorterThan(segment, width2) == Dist2(segment[1], segment[2]) * width2[2] < width2[1]

IsPrefix(a, b) == Len(a) <= Len(b) /\ \A i \in DOMAIN a : a[i] = b[i]

\* C1: every segment a layer appends to lines is strictly shorter than the
\* layer's cell width min(sqrt(w*h / points), factor * min(w, h)), and a
\* consecutive pair of the ordered points is emitted iff it is that short.
C1_SegmentLengthBound ==
    \A k \in DOMAIN layer_log :
        LET L == layer_log[k]
            width2 == LayerCellWidth2(Len(L.points))
            emitted == {lines[j] : j \in (L.first + 1)..L.last}
        IN  /\ \A seg \in emitted : ShorterThan(seg, width2)
            /\ \A i \in 1..(Len(L.neighboring_points) - 1) :
                   LET pair == <<L.neighboring_points[i], L.neighboring_points[i + 1]>>
                   IN  (pair \in emitted) <=> ShorterThan(pair, width2)

\* A layer emitted a segment and dropped a pair that was too long.
C1_Witness ==
    \E k \in DOMAIN layer_log :
        /\ layer_log[k].last > layer_log[k].first
        /\ \E i \in 1..(Len(layer_log[k].neighboring_points) - 1) :
               ~ShorterThan(<<layer_log[k].neighboring_points[i],
                              layer_log[k].neighboring_points[i + 1]>>,
                            LayerCellWidth2(Len(layer_log[k].points)))

C3_IncludedIffDrawBelow ==
    \A k \in DOMAIN layer_log :
        \A p \in Pixels :
            IntLeFloat(prepared_image.px[p], layer_log[k].current_max)
            => ((PointAt(p, prepared_image.w) \in PointSet(layer_log[k].points))
                <=> RatLt(layer_log[k].random_matrix[p], layer_log[k].point_threshold))

QualifyingPixels(L) ==
    {p \in Pixels : IntLeFloat(prepared_image.px[p], L.current_max)}

\* C4 as stated: a layer consumes as many random values as it has
\* qualifying pixels.
C4_DrawsEqualQualifying ==
    \A k \in DOMAIN layer_log :
        layer_log[k].drawn_after - layer_log[k].drawn_before
            = Cardinality(QualifyingPixels(layer_log[k]))

\* C4 as amended: a layer consumes one random value per pixel of the image,
\* qualifying or not, in row-major order; the stream position at the start
\* of layer i is i * w * h.
C4_DrawsEqualPixels ==
    \A k \in DOMAIN layer_log :
        LET L == layer_log[k]
            size == prepared_image.w * prepared_image.h
        IN  /\ L.drawn_before = L.index * size
            /\ L.drawn_after = L.drawn_before + size
            /\ \A p \in Pixels :
                   L.random_matrix[p] = LcgOut(LcgIter(random_seed, L.drawn_before + p))
            /\ k = Len(layer_log) => rng.n = L.drawn_after

\* Two layers were sampled, the first with pixels on both sides of its cutoff.
C4_Witness ==
    /\ Len(layer_log) >= 2
    /\ QualifyingPixels(layer_log[1]) # {}
    /\ QualifyingPixels(layer_log[1]) # Pixels

\* C5: a second run with the same seed, image and schedule parameters ends
\* with the same line list as the first.
C5_Determinism ==
    (run = 2 /\ pc = "done") => (first_run.pc = "done" /\ lines = first_run.lines)

\* The second run finished with segments, and the draws decided a layer:
\* a qualifying pixel was accepted and another rejected.
C5_Witness ==
    /\ run = 2 /\ pc = "done" /\ Len(lines) > 0
    /\ \E k \in DOMAIN layer_log :
           \E p, q \in QualifyingPixels(layer_log[k]) :
               /\ PointAt(p, prepared_image.w) \in PointSet(layer_log[k].points)
               /\ PointAt(q, prepared_image.w) \notin PointSet(layer_log[k].points)

\* C6: a layer with fewer than two points is not ordered, appends nothing,
\* raises nothing, and the next layer starts from the lines it left.
C6_DegenerateLayer ==
    \A k \in DOMAIN layer_log :
        Len(layer_log[k].points) < 2
        => /\ ~layer_log[k].connected
           /\ layer_log[k].neighboring_points = <<>>
           /\ layer_log[k].last = layer_log[k].first
           /\ pc # "error"
           /\ k < Len(layer_log)
              => /\ layer_log[k + 1].index = layer_log[k].index + 1
                 /\ layer_log[k + 1].first = layer_log[k].first

\* A one-point layer was followed by a layer that appended segments.
C6_Witness ==
    \E k \in DOMAIN layer_log :
        /\ k < Len(layer_log)
        /\ Len(layer_log[k].points) = 1
        /\ layer_log[k + 1].last > layer_log[k + 1].first

\* C7: layers are processed in ascending index order 0 .. layerCount-1, each
\* once, and every layer leaves the former line list as a prefix of the new.
C7_Step ==
    /\ (pc # "layers" /\ pc' = "layers") => (layer_index' = 0 /\ lines' = <<>>)
    /\ (pc = "layers" /\ pc' = "layers")
       => /\ layer_index < no_of_layers
          /\ layer_index' = layer_index + 1
          /\ layer_log' = Append(layer_log, layer_log'[Len(layer_log')])
          /\ layer_log'[Len(layer_log')].index = layer_index
          /\ IsPrefix(lines, lines')
    /\ (pc = "layers" /\ pc' = "done")
       => /\ layer_index = no_of_layers
          /\ lines' = lines
          /\ \A k \in DOMAIN layer_log : layer_log[k].index = k - 1
          /\ Len(layer_log) = no_of_layers

C7_AscendingAppendOnly == [][C7_Step]_vars

\* Three layers ran and the second and the third each appended segments
\* behind those of the layer before.
C7_Witness ==
    /\ pc = "done"
    /\ Len(layer_log) = 3
    /\ layer_log[2].first > 0
    /\ layer_log[2].last > layer_log[2].first
    /\ layer_log[3].last > layer_log[3].first

\* C8 as stated: with layerCount <= 0 no empty schedule is returned, and the
\* run fails with InvalidConfiguration before any sampling or draw.
C8_InvalidConfiguration ==
    no_of_layers <= 0
    => /\ pc # "thresholds"
       /\ pc \notin {"layers", "done"}
       /\ pc = "error" => error = "InvalidConfiguration"
       /\ layer_log = <<>> /\ rng.n = 0

\* C8 as amended: with layerCount <= 0 get_point_thresholds returns the empty
\* schedule, and the run then fails with ZeroDivisionError before any layer
\* is sampled or any random value drawn; it never ends normally.
C8_ZeroDivision ==
    no_of_layers <= 0
    => /\ pc = "thresholds" => point_thresholds = <<>>
       /\ pc \notin {"layers", "done"}
       /\ pc = "error" => error = "ZeroDivisionError"
       /\ layer_log = <<>> /\ rng.n = 0 /\ lines = <<>>

\* Both runs with a negative layer count (and a negative exponent) failed.
C8_Witness ==
    /\ no_of_layers < 0 /\ exponent < 0
    /\ pc = "error"
    /\ run = 2 /\ first_run.pc = "error"

AllBlack4x4 ==
    /\ prepared_image.w = 4 /\ prepared_image.h = 4
    /\ \A p \in Pixels : prepared_image.px[p] = 0

\* C9: 4x4 all-black image, one layer, exponent 0, prefactor 1: cutoff 0.0,
\* probability 1.0, all 16 positions sampled whatever the draws, cell width
\* min(1, factor * 4), and every segment shorter than that.
C9_EndToEnd ==
    (AllBlack4x4 /\ no_of_layers = 1 /\ exponent = 0 /\ prefactor = <<1, 1>>)
    => /\ pc # "error"
       /\ Started => point_thresholds = << <<1, 1>> >>
       /\ pc = "done" => Len(layer_log) = 1
       /\ \A k \in DOMAIN layer_log :
              LET L == layer_log[k]
                  f == max_line_length_factor
                  width2 == IF f[2] * f[2] <= 16 * f[1] * f[1]
                            THEN <<1, 1>> ELSE <<16 * f[1] * f[1], f[2] * f[2]>>
              IN  /\ L.current_max = FloatZero
                  /\ L.point_threshold = <<1, 1>>
                  /\ Len(L.points) = 16
                  /\ PointSet(L.points) = (0..3) \X (0..3)
                  /\ L.connected
                  /\ PointSet(L.neighboring_points) = (0..3) \X (0..3)
                  /\ \A j \in DOMAIN lines : ShorterThan(lines[j], width2)

\* The scenario ran to its end with a draw above zero and the factor cap
\* below 1.
C9_Witness ==
    /\ AllBlack4x4 /\ pc = "done" /\ Len(layer_log) = 1
    /\ \E p \in Pixels : layer_log[1].random_matrix[p][1] > 0
    /\ max_line_length_factor = <<1, 8>>

\* C10 as stated: with layerCount >= 1 and a negative exponent the schedule
\* is returned normally, one probability per layer.
C10_NegativeExponentReturns ==
    (no_of_layers >= 1 /\ exponent < 0)
    => /\ pc # "error"
       /\ Started => Len(point_thresholds) = no_of_layers

\* C10 as amended: with layerCount >= 1, a non-negative exponent gives one
\* probability prefactor * i^exponent per layer index i; a negative exponent
\* raises ValueError at index 0 and returns no schedule.
C10_PowerLawOrValueError ==
    no_of_layers >= 1
    => /\ exponent < 0
          => /\ ~Started
             /\ pc = "error" => error = "ValueError"
             /\ rng.n = 0
       /\ exponent >= 0
          => /\ pc # "error"
             /\ Started
                => /\ Len(point_thresholds) = no_of_layers
                   /\ \A i \in 0..(no_of_layers - 1) :
                          point_thresholds[i + 1][1] * prefactor[2]
                            = prefactor[1] * (IF exponent = 0 THEN 1 ELSE i ^ exponent)
                                * point_thresholds[i + 1][2]

\* The negative exponent raised, in a run of more than one layer.
C10_Witness ==
    /\ no_of_layers > 1 /\ exponent < 0
    /\ pc = "error" /\ error = "ValueError"

====
